---- MODULE Spec2Model ----
(***************************************************************************)
(* Model of rclrs/src/subscription/message_info.rs: the PublisherGid and   *)
(* MessageInfo value types and MessageInfo::from_rmw_message_info.         *)
(*                                                                         *)
(* 64-bit quantities do not fit the model checker's machine integers, so   *)
(* an integer n is written as three limbs <<a2, a1, a0>> in base 10^9,     *)
(* n = a2*10^18 + a1*10^9 + a0 with a1, a0 in 0..10^9-1 and a2 the signed  *)
(* top limb (floor representation).  All arithmetic below is exact.        *)
(***************************************************************************)
EXTENDS Integers, Sequences, FiniteSets, TLC

\* ---------------------------------------------------------------- bounds
\* Raw timestamps are drawn from windows of this radius around the values
\* i64::MIN, -10^9, 0, 10^9 and i64::MAX.
Delta == 1
\* Implementation-identifier pointers are the addresses 0..MaxAddr, 0 = null.
MaxAddr == 1
\* Number of bytes of the gid byte array the model keeps.
GidLen == 1

\* ------------------------------------------------- exact integer arithmetic
NANOS_PER_SEC == 1000000000

Norm(x) ==
    LET t1 == x[2] + (x[3] \div NANOS_PER_SEC)
    IN  <<x[1] + (t1 \div NANOS_PER_SEC), t1 % NANOS_PER_SEC, x[3] % NANOS_PER_SEC>>

BigOfInt(n) == Norm(<<0, 0, n>>)

BigAdd(a, b) == Norm(<<a[1] + b[1], a[2] + b[2], a[3] + b[3]>>)

BigSub(a, b) == Norm(<<a[1] - b[1], a[2] - b[2], a[3] - b[3]>>)

BigLt(a, b) ==
    \/ a[1] < b[1]
    \/ a[1] = b[1] /\ a[2] < b[2]
    \/ a[1] = b[1] /\ a[2] = b[2] /\ a[3] < b[3]

BigLe(a, b) == a = b \/ BigLt(a, b)

Zero == <<0, 0, 0>>

One == <<0, 0, 1>>

BigNeg(a) == BigSub(Zero, a)

I64_MAX == <<9, 223372036, 854775807>>

I64_MIN == BigSub(BigNeg(I64_MAX), One)

U64_MAX == <<18, 446744073, 709551615>>

TwoPow64 == BigAdd(U64_MAX, One)

InI64(a) == BigLe(I64_MIN, a) /\ BigLe(a, I64_MAX)

InU64(a) == BigLe(Zero, a) /\ BigLe(a, U64_MAX)

\* ------------------------------------------------------- std::time model
\* SystemTime is modelled as the Unix targets of std represent it: a timespec
\* of i64 seconds and 0..10^9-1 nanoseconds, with nanosecond resolution.
\* i64::wrapping_abs: the negation wraps around at the boundary of the type.
wrapping_abs(ts) ==
    IF BigLt(ts, Zero)
    THEN LET n == BigNeg(ts) IN IF BigLt(I64_MAX, n) THEN BigSub(n, TwoPow64) ELSE n
    ELSE ts

\* Variant: the magnitude taken with saturating_abs, one short at i64::MIN.
unsigned_abs_saturating(ts) ==
    IF BigLt(ts, Zero)
    THEN LET n == BigNeg(ts) IN IF BigLt(I64_MAX, n) THEN I64_MAX ELSE n
    ELSE ts

\* i64::unsigned_abs: self.wrapping_abs() as u64.
unsigned_abs(ts) ==
    LET w == wrapping_abs(ts) IN IF BigLt(w, Zero) THEN BigAdd(w, TwoPow64) ELSE w

\* Variant: only the whole seconds are kept, as by from_secs(nanos / 10^9).
Duration_from_nanos_whole_secs(nanos) ==
    [secs |-> <<0, nanos[1], nanos[2]>>, nanos |-> 0]

\* Duration::from_nanos(nanos: u64): whole seconds and sub-second nanoseconds.
Duration_from_nanos(nanos) ==
    [secs |-> <<0, nanos[1], nanos[2]>>, nanos |-> nanos[3]]

\* SystemTime::UNIX_EPOCH as a timespec.
UNIX_EPOCH == [tv_sec |-> Zero, tv_nsec |-> 0]

\* Option<T>
None == [some |-> FALSE]

Some(t) == [some |-> TRUE, val |-> t]

\* SystemTime::checked_add(Duration): None when tv_sec leaves the i64 range.
SystemTime_checked_add(t, dur) ==
    LET secs == BigAdd(t.tv_sec, dur.secs)
        nsec == t.tv_nsec + dur.nanos
    IN  IF ~InI64(secs) THEN None
        ELSE IF nsec >= NANOS_PER_SEC
             THEN IF ~InI64(BigAdd(secs, One)) THEN None
                  ELSE Some([tv_sec |-> BigAdd(secs, One), tv_nsec |-> nsec - NANOS_PER_SEC])
             ELSE Some([tv_sec |-> secs, tv_nsec |-> nsec])

\* SystemTime::checked_sub(Duration): None when tv_sec leaves the i64 range.
SystemTime_checked_sub(t, dur) ==
    LET secs == BigSub(t.tv_sec, dur.secs)
        nsec == t.tv_nsec - dur.nanos
    IN  IF ~InI64(secs) THEN None
        ELSE IF nsec < 0
             THEN IF ~InI64(BigSub(secs, One)) THEN None
                  ELSE Some([tv_sec |-> BigSub(secs, One), tv_nsec |-> nsec + NANOS_PER_SEC])
             ELSE Some([tv_sec |-> secs, tv_nsec |-> nsec])

\* ------------------------------------------------- the raw record's values
\* Raw signed 64-bit timestamps the middleware may report.
Window(c) == {BigAdd(c, BigOfInt(k)) : k \in -Delta..Delta}

Timestamps ==
    {t \in Window(I64_MIN) \cup Window(BigOfInt(-NANOS_PER_SEC)) \cup Window(Zero)
           \cup Window(BigOfInt(NANOS_PER_SEC)) \cup Window(I64_MAX) : InI64(t)}

\* Raw unsigned 64-bit sequence numbers; u64::MAX is the "unsupported" value.
SeqNumbers == {Zero, One, U64_MAX}

\* Contents of the gid byte array (its first GidLen bytes).
GidIndex == 1..GidLen

ByteVals == {0, 255}

GidData == [GidIndex -> ByteVals]

\* Addresses of implementation-identifier strings; 0 is the null pointer.
Pointers == 0..MaxAddr

\* rmw_message_info_t
RawRecords(TS, SEQ) ==
    [source_timestamp : TS, received_timestamp : TS,
     publication_sequence_number : SEQ, reception_sequence_number : SEQ,
     publisher_gid : [data : GidData, implementation_identifier : Pointers],
     from_intra_process : BOOLEAN]

\* ------------------------------------------------------------ the program
\* One arm group of from_rmw_message_info's match on a raw timestamp.  The
\* result is the Option<SystemTime>, or a panic when the SystemTime operator
\* overflows ("expect" on the checked operation).
Panic == [panic |-> TRUE]

Value(v) == [panic |-> FALSE, value |-> v]

Expect(o) == IF o.some THEN Value(Some(o.val)) ELSE Panic

\* Variant: zero is converted like a positive value instead of being absent.
convert_timestamp_no_sentinel(ts) ==
    IF BigLt(ts, Zero)
    THEN Expect(SystemTime_checked_sub(UNIX_EPOCH, Duration_from_nanos(unsigned_abs(ts))))
    ELSE Expect(SystemTime_checked_add(UNIX_EPOCH, Duration_from_nanos(unsigned_abs(ts))))

\* Variant: the sign is dropped, every non-zero value is added to the epoch.
convert_timestamp_unsigned(ts) ==
    IF ts = Zero THEN Value(None)
    ELSE Expect(SystemTime_checked_add(UNIX_EPOCH, Duration_from_nanos(unsigned_abs(ts))))

\* Variant: the magnitude of a negative value is taken by negating it as an
\* i64 with overflow checks, which panics at i64::MIN.
convert_timestamp_negate(ts) ==
    IF ts = Zero THEN Value(None)
    ELSE IF BigLt(ts, Zero)
         THEN IF ~InI64(BigNeg(ts)) THEN Panic
              ELSE Expect(SystemTime_checked_sub(UNIX_EPOCH, Duration_from_nanos(BigNeg(ts))))
         ELSE Expect(SystemTime_checked_add(UNIX_EPOCH, Duration_from_nanos(unsigned_abs(ts))))

convert_timestamp(ts) ==
    IF ts = Zero THEN Value(None)
    ELSE IF BigLt(ts, Zero)
         THEN Expect(SystemTime_checked_sub(UNIX_EPOCH, Duration_from_nanos(unsigned_abs(ts))))
         ELSE Expect(SystemTime_checked_add(UNIX_EPOCH, Duration_from_nanos(unsigned_abs(ts))))

\* Variant: received_timestamp is converted from the raw source_timestamp.
from_rmw_message_info_same_timestamp(rmw_message_info) ==
    LET source_timestamp == convert_timestamp(rmw_message_info.source_timestamp)
        received_timestamp == convert_timestamp(rmw_message_info.source_timestamp)
        publisher_gid ==
            [data |-> rmw_message_info.publisher_gid.data,
             implementation_identifier |->
                 rmw_message_info.publisher_gid.implementation_identifier]
    IN  IF source_timestamp.panic \/ received_timestamp.panic
        THEN [status |-> "panic"]
        ELSE [status |-> "ok",
              source_timestamp |-> source_timestamp.value,
              received_timestamp |-> received_timestamp.value,
              publication_sequence_number |-> rmw_message_info.publication_sequence_number,
              reception_sequence_number |-> rmw_message_info.reception_sequence_number,
              publisher_gid |-> publisher_gid]

\* Variant: the reception sequence number is taken from the publication
\* sequence number.
from_rmw_message_info_same_sequence(rmw_message_info) ==
    LET source_timestamp == convert_timestamp(rmw_message_info.source_timestamp)
        received_timestamp == convert_timestamp(rmw_message_info.received_timestamp)
        publisher_gid ==
            [data |-> rmw_message_info.publisher_gid.data,
             implementation_identifier |->
                 rmw_message_info.publisher_gid.implementation_identifier]
    IN  IF source_timestamp.panic \/ received_timestamp.panic
        THEN [status |-> "panic"]
        ELSE [status |-> "ok",
              source_timestamp |-> source_timestamp.value,
              received_timestamp |-> received_timestamp.value,
              publication_sequence_number |-> rmw_message_info.publication_sequence_number,
              reception_sequence_number |-> rmw_message_info.publication_sequence_number,
              publisher_gid |-> publisher_gid]

\* MessageInfo::from_rmw_message_info
from_rmw_message_info(rmw_message_info) ==
    LET source_timestamp == convert_timestamp(rmw_message_info.source_timestamp)
        received_timestamp == convert_timestamp(rmw_message_info.received_timestamp)
        publisher_gid ==
            [data |-> rmw_message_info.publisher_gid.data,
             implementation_identifier |->
                 rmw_message_info.publisher_gid.implementation_identifier]
    IN  IF source_timestamp.panic \/ received_timestamp.panic
        THEN [status |-> "panic"]
        ELSE [status |-> "ok",
              source_timestamp |-> source_timestamp.value,
              received_timestamp |-> received_timestamp.value,
              publication_sequence_number |-> rmw_message_info.publication_sequence_number,
              reception_sequence_number |-> rmw_message_info.reception_sequence_number,
              publisher_gid |-> publisher_gid]

\* Variant: only the bytes are compared.
PublisherGid_eq_bytes(a, b) == \A i \in GidIndex : a.data[i] = b.data[i]

\* #[derive(PartialEq)] for PublisherGid: field by field, the array element
\* by element and the raw pointer by address.
PublisherGid_eq(a, b) ==
    /\ \A i \in GidIndex : a.data[i] = b.data[i]
    /\ a.implementation_identifier = b.implementation_identifier

\* PartialEq of Option<SystemTime>.
OptionTime_eq(a, b) ==
    /\ a.some = b.some
    /\ a.some => (a.val.tv_sec = b.val.tv_sec /\ a.val.tv_nsec = b.val.tv_nsec)

\* #[derive(PartialEq)] for MessageInfo.
MessageInfo_eq(a, b) ==
    /\ OptionTime_eq(a.source_timestamp, b.source_timestamp)
    /\ OptionTime_eq(a.received_timestamp, b.received_timestamp)
    /\ a.publication_sequence_number = b.publication_sequence_number
    /\ a.reception_sequence_number = b.reception_sequence_number
    /\ PublisherGid_eq(a.publisher_gid, b.publisher_gid)

\* ------------------------------------------------------------------ state
VARIABLES
    raw,    \* the rmw_message_info_t the caller holds, or NoRaw
    info,   \* the outcome of from_rmw_message_info on raw, or NoInfo
    held    \* a PublisherGid cloned from an earlier message, or NoGid

vars == <<raw, info, held>>

NoRaw == [present |-> FALSE]

NoInfo == [status |-> "none"]

NoGid == [present |-> FALSE]

Init ==
    /\ raw = NoRaw
    /\ info = NoInfo
    /\ held = NoGid

\* The caller fills in a raw record for a message it has taken.
Take(records) ==
    /\ ~raw.present
    /\ \E r \in records : raw' = [present |-> TRUE, rec |-> r]
    /\ info' = NoInfo
    /\ UNCHANGED held

Receive == Take(RawRecords(Timestamps, SeqNumbers))

\* The caller converts the record it holds; the record is only borrowed.
Convert ==
    /\ raw.present
    /\ info = NoInfo
    /\ info' = from_rmw_message_info(raw.rec)
    /\ UNCHANGED <<raw, held>>

\* The record and the MessageInfo go out of scope.
Drop ==
    /\ raw.present
    /\ info # NoInfo
    /\ raw' = NoRaw
    /\ info' = NoInfo
    /\ UNCHANGED held

Next == Receive \/ Convert \/ Drop

Spec == Init /\ [][Next]_vars

\* A second specification for the comparison of publisher gids: the caller
\* keeps a clone of a message's PublisherGid beyond the message.
ReceiveGid == Take(RawRecords({Zero, BigOfInt(NANOS_PER_SEC)}, {Zero}))

Keep ==
    /\ info.status = "ok"
    /\ held' = [present |-> TRUE, gid |-> info.publisher_gid]
    /\ raw' = NoRaw
    /\ info' = NoInfo

NextGid == ReceiveGid \/ Convert \/ Keep \/ Drop

SpecGid == Init /\ [][NextGid]_vars

\* ------------------------------------------------------------ properties
\* The call has returned or panicked on the record the caller holds.
Called == raw.present /\ info # NoInfo

\* The call has returned a MessageInfo for the record the caller holds.
Converted == raw.present /\ info.status = "ok"

TimestampFields == {"source_timestamp", "received_timestamp"}

\* A SystemTime as nanoseconds since the Unix epoch (negative before it).
Instant(t) == <<t.tv_sec[1] * NANOS_PER_SEC + t.tv_sec[2], t.tv_sec[3], t.tv_nsec>>

\* |ts| of a negative value as a mathematical integer.
Magnitude(ts) == BigNeg(ts)

\* C1: a negative raw timestamp, i64::MIN included, converts without panic
\* to a present timestamp equal to the epoch minus |ts| nanoseconds, |ts|
\* being an unsigned 64-bit magnitude.
C1_NegativeBeforeEpoch ==
    Called =>
        \A f \in TimestampFields :
            BigLt(raw.rec[f], Zero) =>
                /\ info.status = "ok"
                /\ info[f].some
                /\ InU64(Magnitude(raw.rec[f]))
                /\ Instant(info[f].val) = BigSub(Instant(UNIX_EPOCH), Magnitude(raw.rec[f]))

C1_Witness ==
    /\ Converted
    /\ raw.rec.source_timestamp = I64_MIN
    /\ raw.rec.received_timestamp = BigOfInt(-1)
    /\ info.source_timestamp.some
    /\ info.received_timestamp.some

\* C2: a raw timestamp of 0 converts to an absent timestamp, whatever the
\* other fields of the record are.
C2_ZeroIsAbsent ==
    Converted =>
        \A f \in TimestampFields : raw.rec[f] = Zero => info[f] = None

C2_Witness ==
    /\ Converted
    /\ raw.rec.source_timestamp = Zero
    /\ raw.rec.received_timestamp = I64_MIN
    /\ raw.rec.publication_sequence_number = U64_MAX
    /\ raw.rec.publisher_gid.implementation_identifier # 0
    /\ info.source_timestamp = None
    /\ info.received_timestamp.some

\* C3: a strictly positive raw timestamp converts to a present timestamp
\* equal to the epoch plus ts nanoseconds, exactly.
C3_PositiveAfterEpoch ==
    Called =>
        \A f \in TimestampFields :
            BigLt(Zero, raw.rec[f]) =>
                /\ info.status = "ok"
                /\ info[f].some
                /\ Instant(info[f].val) = BigAdd(Instant(UNIX_EPOCH), raw.rec[f])

C3_Witness ==
    /\ Converted
    /\ raw.rec.source_timestamp = I64_MAX
    /\ raw.rec.received_timestamp = BigOfInt(NANOS_PER_SEC + 1)
    /\ info.source_timestamp.some
    /\ info.received_timestamp.some

\* C4 as stated: two PublisherGid values compare equal exactly when their
\* data bytes are identical, the implementation identifiers playing no part.
C4_EqualityByBytesAlone ==
    (held.present /\ Converted) =>
        (PublisherGid_eq(held.gid, info.publisher_gid)
            <=> held.gid.data = info.publisher_gid.data)

\* C4 as amended: two PublisherGid values with differing data bytes never
\* compare equal, and two with identical data bytes compare equal exactly
\* when their implementation_identifier pointers are the same address.
C4_EqualityByBytesAndIdentifier ==
    (held.present /\ Converted) =>
        /\ held.gid.data # info.publisher_gid.data
               => ~PublisherGid_eq(held.gid, info.publisher_gid)
        /\ held.gid.data = info.publisher_gid.data
               => (PublisherGid_eq(held.gid, info.publisher_gid)
                      <=> held.gid.implementation_identifier
                              = info.publisher_gid.implementation_identifier)

C4_Witness ==
    /\ held.present
    /\ Converted
    /\ held.gid.data = info.publisher_gid.data
    /\ held.gid.implementation_identifier # info.publisher_gid.implementation_identifier
    /\ ~PublisherGid_eq(held.gid, info.publisher_gid)

\* C5: the sequence numbers and the publisher gid (bytes and implementation
\* identifier) of the result are those of the raw record, u64::MAX included,
\* whatever the timestamps are.
C5_PassThrough ==
    Converted =>
        /\ info.publication_sequence_number = raw.rec.publication_sequence_number
        /\ info.reception_sequence_number = raw.rec.reception_sequence_number
        /\ info.publisher_gid.data = raw.rec.publisher_gid.data
        /\ info.publisher_gid.implementation_identifier
               = raw.rec.publisher_gid.implementation_identifier

C5_Witness ==
    /\ Converted
    /\ raw.rec.publication_sequence_number = U64_MAX
    /\ raw.rec.reception_sequence_number = One
    /\ raw.rec.source_timestamp = I64_MIN
    /\ raw.rec.received_timestamp = Zero
    /\ raw.rec.publisher_gid.implementation_identifier = 0
    /\ info.publication_sequence_number = U64_MAX
    /\ info.reception_sequence_number = One

\* C6: when source_timestamp ts1 and received_timestamp ts2 satisfy
\* ts1 < 0 < ts2 and ts2 = -ts1, both results are present and the source
\* instant plus a Duration of ts2 - ts1 nanoseconds is the received instant;
\* for -10^9 and 10^9 the source instant is exactly 2 seconds earlier.
C6_SymmetricGap ==
    LET ts1 == raw.rec.source_timestamp
        ts2 == raw.rec.received_timestamp
    IN  (Called /\ BigLt(ts1, Zero) /\ BigLt(Zero, ts2) /\ ts2 = BigNeg(ts1)) =>
            /\ info.status = "ok"
            /\ info.source_timestamp.some
            /\ info.received_timestamp.some
            /\ SystemTime_checked_add(info.source_timestamp.val,
                                      Duration_from_nanos(BigSub(ts2, ts1)))
                   = Some(info.received_timestamp.val)
            /\ ts2 = BigOfInt(NANOS_PER_SEC) =>
                   SystemTime_checked_add(info.source_timestamp.val,
                                          [secs |-> BigOfInt(2), nanos |-> 0])
                       = Some(info.received_timestamp.val)

C6_Witness ==
    /\ Converted
    /\ raw.rec.source_timestamp = BigOfInt(-NANOS_PER_SEC)
    /\ raw.rec.received_timestamp = BigOfInt(NANOS_PER_SEC)
    /\ info.source_timestamp = Some([tv_sec |-> BigOfInt(-1), tv_nsec |-> 0])
    /\ info.received_timestamp = Some([tv_sec |-> One, tv_nsec |-> 0])

\* C7: every call returns a MessageInfo (it never panics) and leaves the raw
\* record, and everything else the caller holds, as it was.
C7_TotalAndPure ==
    [][(info = NoInfo /\ info' # NoInfo) =>
           (info'.status = "ok" /\ raw' = raw /\ held' = held)]_vars

C7_Witness ==
    /\ Converted
    /\ raw.rec.source_timestamp = I64_MIN
    /\ raw.rec.received_timestamp = I64_MAX
    /\ raw.rec.publication_sequence_number = U64_MAX
    /\ raw.rec.reception_sequence_number = U64_MAX
    /\ raw.rec.publisher_gid.implementation_identifier = 0

\* C9: for non-zero raw timestamps a < b both results are present, the
\* instant of a is strictly earlier than the instant of b and the gap is
\* exactly b - a nanoseconds; a result is absent exactly when the raw value
\* is 0.
OrderedPair(fa, fb) ==
    LET a == raw.rec[fa]
        b == raw.rec[fb]
    IN  (a # Zero /\ b # Zero /\ BigLt(a, b)) =>
            /\ info[fa].some
            /\ info[fb].some
            /\ BigLt(Instant(info[fa].val), Instant(info[fb].val))
            /\ BigSub(Instant(info[fb].val), Instant(info[fa].val)) = BigSub(b, a)

C9_OrderPreserving ==
    Called =>
        /\ info.status = "ok"
        /\ \A f \in TimestampFields : ~info[f].some <=> raw.rec[f] = Zero
        /\ OrderedPair("source_timestamp", "received_timestamp")
        /\ OrderedPair("received_timestamp", "source_timestamp")

C9_Witness ==
    /\ Converted
    /\ raw.rec.source_timestamp = I64_MIN
    /\ raw.rec.received_timestamp = I64_MAX
    /\ BigSub(Instant(info.received_timestamp.val), Instant(info.source_timestamp.val))
           = U64_MAX

\* C10: records that differ only in from_intra_process convert to equal
\* MessageInfo values, and changing one raw timestamp alone changes at most
\* the result's timestamp of the same name.
SameBut(f, a, b) ==
    /\ f # "source_timestamp" => OptionTime_eq(a.source_timestamp, b.source_timestamp)
    /\ f # "received_timestamp" => OptionTime_eq(a.received_timestamp, b.received_timestamp)
    /\ a.publication_sequence_number = b.publication_sequence_number
    /\ a.reception_sequence_number = b.reception_sequence_number
    /\ PublisherGid_eq(a.publisher_gid, b.publisher_gid)

\* The values one raw timestamp is changed to.
TimestampProbes == {I64_MIN, BigOfInt(-1), Zero, One, I64_MAX}

C10_FieldIndependence ==
    Converted =>
        /\ \A p \in BOOLEAN :
               \A other \in {from_rmw_message_info([raw.rec EXCEPT !.from_intra_process = p])} :
                   other.status = "ok" /\ MessageInfo_eq(other, info)
        /\ \A f \in TimestampFields : \A t \in TimestampProbes :
               \A other \in {from_rmw_message_info([raw.rec EXCEPT ![f] = t])} :
                   other.status = "ok" /\ SameBut(f, other, info)

C10_Witness ==
    /\ Converted
    /\ raw.rec.from_intra_process
    /\ raw.rec.source_timestamp = BigOfInt(-1)
    /\ raw.rec.received_timestamp = One
    /\ MessageInfo_eq(from_rmw_message_info([raw.rec EXCEPT !.from_intra_process = FALSE]),
                      info)
    /\ from_rmw_message_info([raw.rec EXCEPT !.source_timestamp = I64_MAX]).source_timestamp
           # info.source_timestamp

====
